---- MODULE Spec2Model ----
(***************************************************************************)
(* Model of service/src/device.c (AGM device layer, tinyalsa backend).     *)
(*                                                                         *)
(* The specifications of this module:                                      *)
(*   - Spec: the lifecycle of one Device Object (device_open,              *)
(*     device_prepare, device_start, device_stop, device_close) called by  *)
(*     several threads;                                                    *)
(*   - SpecInit: the registry (parse_snd_card, device_init,                *)
(*     device_get_obj, device_get_aif_info_list);                          *)
(*   - SpecTeardown: the lifecycle of a registered object, then            *)
(*     device_deinit;                                                      *)
(*   - SpecConfig: device_set_media_config and device_open;                *)
(*   - SpecParams: device_set_params and device_current_state beside       *)
(*     device_open and device_close;                                       *)
(*   - SpecMixer: device_get_channel_map called by several threads on a    *)
(*     registered object, then device_deinit.                              *)
(***************************************************************************)
EXTENDS Integers, Sequences, FiniteSets, TLC

----------------------------------------------------------------------------
(* Bounds of the model *)

\* number of caller threads: at most this many calls are in flight at once
NThreads == 2
\* total number of lifecycle calls made in one behaviour
MaxCalls == 6
\* largest channel count of a media configuration
MaxChannels == 2
\* largest number of lines of /proc/asound/pcm
MaxLines == 2
\* largest number of lines read over all the discovery attempts of one behaviour
MaxCounted == 4
\* largest size of a params payload
MaxSize == 2

----------------------------------------------------------------------------
(* Program constants *)

MAX_PERIOD_BUFFER == 8192
DEFAULT_PERIOD_COUNT == 2

MAX_RETRY == 100
RETRY_INTERVAL == 1

\* AIF_NAME_MAX_LEN of agm_api.h, the size of aif_info.aif_name
AIF_NAME_MAX_LEN == 28

\* errno values
ENOENT == 2
EIO == 5
EAGAIN == 11
ENOMEM == 12
ENODEV == 19
EINVAL == 22

\* enum device_state, in declaration order (device_start compares with <)
DEV_CLOSED == 0
DEV_OPENED == 1
DEV_PREPARED == 2
DEV_STARTED == 3
DEV_STOPPED == 4

\* the value of a struct pcm * that calloc left zero
NULL == 0

\* the descriptor open(SYSFS_FD_PATH) returns when it succeeds
SYSFS_FD == 3

Ops == {"open", "prepare", "start", "stop", "close"}

\* where a thread inside device_get_channel_map can be: before the test of
\* line 623, between that test and mixer_open, and after the if statement
ChmapPositions == {"test", "open", "use"}
DrvCalls == {"pcm_open", "pcm_prepare", "pcm_stop", "pcm_close"}

AgmFormats == {"AGM_FORMAT_PCM_S8", "AGM_FORMAT_PCM_S16_LE", "AGM_FORMAT_PCM_S24_LE",
               "AGM_FORMAT_PCM_S24_3LE", "AGM_FORMAT_PCM_S32_LE", "AGM_FORMAT_MP3"}

\* what a caller can hand to device_set_media_config: channels is a uint32_t
\* that nothing validates
MediaConfigs == [format : AgmFormats, channels : 0..MaxChannels]

\* the configuration the caller set before the lifecycle calls begin
DefaultConfig == [format |-> "AGM_FORMAT_PCM_S16_LE", channels |-> MaxChannels]

----------------------------------------------------------------------------
(* Format Translator *)

get_pcm_bits_per_sample(fmt_id) ==
    CASE fmt_id = "AGM_FORMAT_PCM_S8"      -> 8
      [] fmt_id = "AGM_FORMAT_PCM_S24_LE"  -> 32
      [] fmt_id = "AGM_FORMAT_PCM_S24_3LE" -> 24
      [] fmt_id = "AGM_FORMAT_PCM_S32_LE"  -> 32
      [] OTHER                             -> 16

agm_to_pcm_format(format) ==
    CASE format = "AGM_FORMAT_PCM_S32_LE"  -> "PCM_FORMAT_S32_LE"
      [] format = "AGM_FORMAT_PCM_S8"      -> "PCM_FORMAT_S8"
      [] format = "AGM_FORMAT_PCM_S24_3LE" -> "PCM_FORMAT_S24_3LE"
      [] format = "AGM_FORMAT_PCM_S24_LE"  -> "PCM_FORMAT_S24_LE"
      [] OTHER                             -> "PCM_FORMAT_S16_LE"

\* the divisor of line 293: the bytes of one frame
FrameBytes(mc) == mc.channels * (get_pcm_bits_per_sample(mc.format) \div 8)

\* the quotient of line 293; with a divisor of 0 the division is undefined, and
\* a build that does not trap yields 0
PeriodSize(mc) ==
    IF FrameBytes(mc) = 0 THEN 0 ELSE MAX_PERIOD_BUFFER \div FrameBytes(mc)

\* whether the division of line 293 can kill the process, and whether it can
\* go on
DivisionTraps(mc) == IF FrameBytes(mc) = 0 THEN {TRUE, FALSE} ELSE {FALSE}

\* the struct pcm_config device_open hands to pcm_open
PcmConfig(mc) ==
    [channels     |-> mc.channels,
     format       |-> agm_to_pcm_format(mc.format),
     period_size  |-> PeriodSize(mc),
     period_count |-> DEFAULT_PERIOD_COUNT]

NoConfig == [channels |-> 0, format |-> "none", period_size |-> 0, period_count |-> 0]

----------------------------------------------------------------------------
(* Registry values *)

\* a name of n characters c
NameOfLen(c, n) == [i \in 1..n |-> c]

\* the longest name that fits aif_info.aif_name, and the shortest that does not
FitName == NameOfLen("f", AIF_NAME_MAX_LEN - 1)
LongName == NameOfLen("l", AIF_NAME_MAX_LEN)

\* a NULL slot of device_list, and what a read past the array yields
NullDev == [name |-> <<>>, dir |-> "NULL"]
WildDev == [name |-> <<>>, dir |-> "wild"]

\* the lines /proc/asound/pcm can hold: the name sscanf reads, whether
\* populate_device_hw_ep_info succeeds, and the direction it finds
LineKinds ==
    { [name |-> FitName,  probe |-> FALSE, dir |-> "AUDIO_OUTPUT"],
      [name |-> FitName,  probe |-> TRUE,  dir |-> "AUDIO_OUTPUT"],
      [name |-> LongName, probe |-> TRUE,  dir |-> "AUDIO_INPUT"] }

RECURSIVE SeqsUpTo(_, _)
SeqsUpTo(S, n) ==
    IF n = 0 THEN {<<>>}
    ELSE LET shorter == SeqsUpTo(S, n - 1)
         IN  shorter \cup {Append(f, x) : f \in {g \in shorter : Len(g) = n - 1}, x \in S}

Files == SeqsUpTo(LineKinds, MaxLines)

\* device_list before the first calloc, and after free(device_list)
NullList == [ptr |-> "NULL", cap |-> 0, arr |-> <<>>]
FreedList == [ptr |-> "freed", cap |-> 0, arr |-> <<>>]
\* a size_t of 64 bits as its high and low 32-bit halves
SizeT(hi, lo) == [hi |-> hi, lo |-> lo]

\* dev_obj->params and params_size as calloc left them
NoParams == [ptr |-> "NULL", size |-> 0]

NoQuery == [fn |-> "none", arg |-> SizeT(0, 0), ret |-> 0, obj |-> NullDev, read |-> -1,
            list |-> <<>>, out |-> SizeT(0, 0)]

----------------------------------------------------------------------------
(* State *)

VARIABLES
    \* struct device_obj
    state,          \* dev_obj->state
    refcnt,         \* dev_obj->refcnt : [open, prepare, start]
    pcm,            \* dev_obj->pcm : NULL or a handle
    media_config,   \* dev_obj->media_config
    lock,           \* dev_obj->lock : TRUE when some thread holds it
    params,         \* dev_obj->params and params_size : [ptr : "NULL" or "heap", size]
    \* process globals
    sysfs_fd,       \* the notification descriptor, -1 when not open
    mixer,          \* the static struct mixer *mixer : NULL or a handle
    \* threads (they differ only by the call they are in)
    waiting,        \* waiting[o] : threads inside device_<o>, before pthread_mutex_lock
    holder,         \* the function of the thread inside its critical section, or "none"
    ret,            \* the value the most recent call returned
    crashed,        \* the process died on a bad handle
    \* the driver (tinyalsa)
    live,           \* handles pcm_open returned and pcm_close has not closed
    nhandles,       \* handles handed out so far
    lastConfig,     \* the configuration of the last pcm_open call
    mixers,         \* handles mixer_open returned and mixer_close has not closed
    nmixers,        \* mixer handles handed out so far
    \* threads inside device_get_channel_map
    chmap,          \* chmap[p] : threads at position p of device_get_channel_map
    chcalls,        \* device_get_channel_map calls made so far
    \* history
    done,           \* done[o] : calls of o whose critical section has run
    okOpen,         \* device_open calls that returned 0
    okStart,        \* device_start calls that returned 0
    drv,            \* drv[d] : calls made to driver function d
    mixedClose,     \* some call other than device_close ran after a device_close
    mixedStop,      \* some call other than device_stop ran after a device_stop
    lockuse,        \* the uses of the lock that broke its rule: [unheld : some
                    \*   thread unlocked the lock without holding it, bare : the
                    \*   fields some thread read or wrote without holding it]
    notif,          \* the notifications attempted: [enable, disable : how many of
                    \*   each, log : the driver call and the notification of the
                    \*   latest critical section that notified, in program order]
    \* the registry
    device_list,    \* the global array: [ptr : "NULL", "live" or "freed",
                    \*   cap : the slots calloc'ed, arr : the slots filled, the rest NULL]
    num_audio_intfs,
    \* device_init
    initpc,         \* "loop" inside the do-while of device_init, "done" after it
    retries,        \* the local retries
    initret,        \* the local ret, the return value when initpc = "done"
    attempts,       \* parse_snd_card calls so far
    sleeps,         \* seconds slept in sleep(RETRY_INTERVAL) so far
    \* the latest registry query and its results
    query

devVars == <<state, refcnt, pcm, media_config, lock, sysfs_fd>>
\* the params of the object, the record of lock misuse and the mixer with the
\* threads of device_get_channel_map, which the lifecycle functions do not touch
accVars == <<params, lockuse, mixer, mixers, nmixers, chmap, chcalls>>
thrVars == <<waiting, holder, ret, crashed>>
drvVars == <<live, nhandles, lastConfig>>
histVars == <<done, okOpen, okStart, drv, mixedClose, mixedStop, notif>>
regVars == <<device_list, num_audio_intfs, initpc, retries, initret, attempts, sleeps,
             query>>
lifeVars == <<devVars, accVars, thrVars, drvVars, histVars>>
vars == <<devVars, accVars, thrVars, drvVars, histVars, regVars>>

\* calls in flight, and calls made so far
InFlight == waiting["open"] + waiting["prepare"] + waiting["start"] + waiting["stop"]
              + waiting["close"] + (IF holder = "none" THEN 0 ELSE 1)
NCalls == done["open"] + done["prepare"] + done["start"] + done["stop"] + done["close"]
            + InFlight

Init ==
    /\ state = DEV_CLOSED
    /\ refcnt = [open |-> 0, prepare |-> 0, start |-> 0]
    /\ pcm = NULL
    /\ media_config = DefaultConfig
    /\ lock = FALSE
    /\ params = NoParams
    /\ lockuse = [unheld |-> FALSE, bare |-> {}]
    /\ mixer = NULL
    /\ mixers = {}
    /\ nmixers = 0
    /\ chmap = [p \in ChmapPositions |-> 0]
    /\ chcalls = 0
    /\ sysfs_fd = -1
    /\ waiting = [o \in Ops |-> 0]
    /\ holder = "none"
    /\ ret = 0
    /\ crashed = FALSE
    /\ live = {}
    /\ nhandles = 0
    /\ lastConfig = NoConfig
    /\ done = [o \in Ops |-> 0]
    /\ okOpen = 0
    /\ okStart = 0
    /\ drv = [d \in DrvCalls |-> 0]
    /\ mixedClose = FALSE
    /\ mixedStop = FALSE
    /\ notif = [enable |-> 0, disable |-> 0, log |-> <<>>]
    /\ device_list = NullList
    /\ num_audio_intfs = 0
    /\ initpc = "loop"
    /\ retries = MAX_RETRY
    /\ initret = 0
    /\ attempts = 0
    /\ sleeps = 0
    /\ query = NoQuery

----------------------------------------------------------------------------
(* Calling a lifecycle function *)

\* a thread enters device_<o>(dev_obj), dev_obj is not NULL
Call(o) ==
    /\ ~crashed
    /\ InFlight < NThreads
    /\ NCalls < MaxCalls
    /\ waiting' = [waiting EXCEPT ![o] = @ + 1]
    /\ UNCHANGED <<devVars, accVars, holder, ret, crashed, drvVars, histVars, regVars>>

\* device_<o>(NULL): the argument check returns -EINVAL
CallNull(o) ==
    /\ ~crashed
    /\ InFlight < NThreads
    /\ ret' = -EINVAL
    /\ UNCHANGED <<devVars, accVars, waiting, holder, crashed, drvVars, histVars,
                   regVars>>

\* pthread_mutex_lock(&dev_obj->lock) in device_<o>
Acquire(o) ==
    /\ ~crashed
    /\ waiting[o] > 0
    /\ ~lock
    /\ lock' = TRUE
    /\ waiting' = [waiting EXCEPT ![o] = @ - 1]
    /\ holder' = o
    /\ UNCHANGED <<state, refcnt, pcm, media_config, sysfs_fd, accVars, ret, crashed,
                   drvVars, histVars, regVars>>

InCrit(o) == ~crashed /\ holder = o /\ lock

\* an exit path that returns r without pthread_mutex_unlock
Return_NoUnlock(r) ==
    /\ lock' = lock
    /\ holder' = "none"
    /\ ret' = r
    /\ UNCHANGED <<waiting, crashed>>

\* pthread_mutex_unlock(&dev_obj->lock); return r;
Return(r) ==
    /\ lock' = FALSE
    /\ holder' = "none"
    /\ ret' = r
    /\ UNCHANGED <<waiting, crashed>>

\* the process dies inside a driver call: the thread never returns
Crash ==
    /\ crashed' = TRUE
    /\ UNCHANGED <<lock, waiting, holder, ret>>

\* bookkeeping of the history variables for one critical section of o
Ran(o, d) ==
    /\ done' = [done EXCEPT ![o] = @ + 1]
    /\ drv' = IF d \in DrvCalls THEN [drv EXCEPT ![d] = @ + 1] ELSE drv
    /\ mixedClose' = (mixedClose \/ (o # "close" /\ done["close"] > 0))
    /\ mixedStop' = (mixedStop \/ (o # "stop" /\ done["stop"] > 0))

\* what a driver call on handle h can do: a live handle succeeds or fails; a
\* NULL handle fails or kills the process; a closed (dangling) handle is a use
\* after free
PcmCallOutcomes(h) ==
    IF h \in live THEN {"ok", "err"}
    ELSE IF h = NULL THEN {"err", "crash"}
    ELSE {"ok", "err", "crash"}

----------------------------------------------------------------------------
(* Notification sink *)

\* update_sysfs_fd: the value of sysfs_fd afterwards; openOk is the outcome of
\* open(SYSFS_FD_PATH) when it is attempted
update_sysfs_fd(openOk) ==
    IF sysfs_fd >= 0 THEN sysfs_fd
    ELSE IF openOk THEN SYSFS_FD ELSE -1

----------------------------------------------------------------------------
(* Device Lifecycle Manager *)

\* a slip in the test of line 280: the second opener is not recognised
OpenAlreadyOpened_SkipsSecond == refcnt.open > 1

\* device_open, line 280: if (dev_obj->refcnt.open)
OpenAlreadyOpened == refcnt.open # 0

\* a slip in the test of line 300: the outcome of pcm_open is not looked at
PcmOpenFailed_Ignored(opened) == FALSE

\* device_open, line 300: if (!pcm || !pcm_is_ready(pcm))
PcmOpenFailed(opened) == ~opened

\* device_open, lines 298 and 308: pcm_open, then update_sysfs_fd
OpenEvents == <<"pcm_open", "DEVICE_ENABLE">>

\* a slip after line 308: a sink that could not be opened fails the open
OpenSuccessRet_NeedsSink(fd) == IF fd < 0 THEN -EIO ELSE 0

\* device_open, lines 269 and 308: update_sysfs_fd is void, ret keeps its
\* initial 0 whatever fd the sink has afterwards
OpenSuccessRet(fd) == 0

\* notif after a critical section that made the calls of events
Notified(events) ==
    [enable  |-> notif.enable
                   + Cardinality({i \in DOMAIN events : events[i] = "DEVICE_ENABLE"}),
     disable |-> notif.disable
                   + Cardinality({i \in DOMAIN events : events[i] = "DEVICE_DISABLE"}),
     log     |-> events]

\* device_open, lines 279-314
DeviceOpen ==
    /\ InCrit("open")
    /\ UNCHANGED <<accVars, regVars>>
    /\ IF OpenAlreadyOpened
       THEN /\ refcnt' = [refcnt EXCEPT !.open = @ + 1]
            /\ Return(0)
            /\ okOpen' = okOpen + 1
            /\ Ran("open", "none")
            /\ UNCHANGED <<state, pcm, media_config, sysfs_fd, drvVars, okStart, notif>>
       ELSE \E trap \in DivisionTraps(media_config), opened \in BOOLEAN,
               openOk \in BOOLEAN :
            IF trap
            THEN \* the division of line 293 kills the process
                 /\ Crash
                 /\ Ran("open", "none")
                 /\ UNCHANGED <<state, refcnt, pcm, media_config, sysfs_fd, drvVars,
                                okOpen, okStart, notif>>
            ELSE
            /\ lastConfig' = PcmConfig(media_config)
            /\ Ran("open", "pcm_open")
            \* the driver: a handle that is ready, or none
            /\ nhandles' = IF opened THEN nhandles + 1 ELSE nhandles
            /\ live' = IF opened THEN live \cup {nhandles + 1} ELSE live
            /\ IF PcmOpenFailed(opened)
               THEN /\ Return(-EIO)
                    /\ UNCHANGED <<state, refcnt, pcm, media_config, sysfs_fd,
                                   okOpen, okStart, notif>>
               ELSE /\ sysfs_fd' = update_sysfs_fd(openOk)
                    /\ notif' = Notified(OpenEvents)
                    /\ pcm' = IF opened THEN nhandles + 1 ELSE NULL
                    /\ state' = DEV_OPENED
                    /\ refcnt' = [refcnt EXCEPT !.open = @ + 1]
                    /\ Return(OpenSuccessRet(update_sysfs_fd(openOk)))
                    /\ okOpen' = okOpen + 1
                    /\ UNCHANGED <<media_config, okStart>>

\* device_prepare, line 328: if (dev_obj->refcnt.prepare)
PrepareAlreadyPrepared == refcnt.prepare # 0

\* device_prepare, lines 327-352
DevicePrepare ==
    /\ InCrit("prepare")
    /\ UNCHANGED <<accVars, regVars>>
    /\ UNCHANGED <<pcm, media_config, sysfs_fd, drvVars, okOpen, okStart, notif>>
    /\ IF PrepareAlreadyPrepared
       THEN /\ refcnt' = [refcnt EXCEPT !.prepare = @ + 1]
            /\ Return(0)
            /\ Ran("prepare", "none")
            /\ UNCHANGED state
       ELSE \E out \in PcmCallOutcomes(pcm) :
            /\ Ran("prepare", "pcm_prepare")
            /\ CASE out = "ok" ->
                      /\ state' = DEV_PREPARED
                      /\ refcnt' = [refcnt EXCEPT !.prepare = @ + 1]
                      /\ Return(0)
                 [] out = "err" ->
                      /\ Return(-EIO)
                      /\ UNCHANGED <<state, refcnt>>
                 [] out = "crash" ->
                      /\ Crash
                      /\ UNCHANGED <<state, refcnt>>

\* a slip in the test of line 364: an opened device counts as prepared
StartNotPrepared_OffByOne == state < DEV_OPENED

\* device_start, line 364: if (dev_obj->state < DEV_PREPARED)
StartNotPrepared == state < DEV_PREPARED

\* device_start, line 371: if (dev_obj->refcnt.start)
StartAlreadyStarted == refcnt.start # 0

\* device_start, lines 363-384
DeviceStart ==
    /\ InCrit("start")
    /\ UNCHANGED <<accVars, regVars>>
    /\ Ran("start", "none")
    /\ UNCHANGED <<pcm, media_config, sysfs_fd, drvVars, okOpen, notif>>
    /\ IF StartNotPrepared
       THEN /\ Return(-1)
            /\ UNCHANGED <<state, refcnt, okStart>>
       ELSE /\ state' = IF StartAlreadyStarted THEN state ELSE DEV_STARTED
            /\ refcnt' = [refcnt EXCEPT !.start = @ + 1]
            /\ Return(0)
            /\ okStart' = okStart + 1

\* the test of line 396 left out
StopAlreadyStopped_Never == FALSE

\* device_stop, line 396: if (!dev_obj->refcnt.start)
StopAlreadyStopped == refcnt.start = 0

\* the test of line 403 left out: every stop stops the hardware
StopLastReleaser_Every(n) == TRUE

\* device_stop, line 403: if (dev_obj->refcnt.start == 0), after the decrement
StopLastReleaser(n) == n = 0

\* the state rolled back when the driver's stop failed
StateAfterStop_RollsBack(out, s) == IF out = "err" THEN s ELSE DEV_STOPPED

\* device_stop, lines 407-413: a failure of pcm_stop is logged, and the state
\* is set to STOPPED whatever pcm_stop returned
StateAfterStop(out, s) == DEV_STOPPED

\* device_stop, lines 395-419
DeviceStop ==
    /\ InCrit("stop")
    /\ UNCHANGED <<accVars, regVars>>
    /\ UNCHANGED <<pcm, media_config, sysfs_fd, drvVars, okOpen, okStart, notif>>
    /\ IF StopAlreadyStopped
       THEN /\ Return(0)
            /\ Ran("stop", "none")
            /\ UNCHANGED <<state, refcnt>>
       ELSE IF StopLastReleaser(refcnt.start - 1)
       THEN \E out \in PcmCallOutcomes(pcm) :
            /\ Ran("stop", "pcm_stop")
            /\ refcnt' = [refcnt EXCEPT !.start = @ - 1]
            /\ CASE out = "ok" ->
                      /\ state' = StateAfterStop(out, state)
                      /\ Return(0)
                 [] out = "err" ->
                      /\ state' = StateAfterStop(out, state)
                      /\ Return(-EIO)
                 [] out = "crash" ->
                      /\ Crash
                      /\ UNCHANGED state
       ELSE /\ refcnt' = [refcnt EXCEPT !.start = @ - 1]
            /\ Return(0)
            /\ Ran("stop", "none")
            /\ UNCHANGED state

\* the test of line 431 left out: every close closes the hardware
CloseLastReleaser_Every(n) == TRUE

\* device_close, line 431: if (--dev_obj->refcnt.open == 0)
CloseLastReleaser(n) == n = 0

\* a slip in the order of lines 432 and 436: the driver close comes first
CloseEvents_CloseFirst == <<"pcm_close", "DEVICE_DISABLE">>

\* device_close, lines 432 and 436: update_sysfs_fd, then pcm_close
CloseEvents == <<"DEVICE_DISABLE", "pcm_close">>

\* device_close, lines 430-449
DeviceClose ==
    /\ InCrit("close")
    /\ UNCHANGED <<accVars, regVars>>
    /\ UNCHANGED <<pcm, media_config, nhandles, lastConfig, okOpen, okStart>>
    /\ IF CloseLastReleaser(refcnt.open - 1)
       THEN \E out \in PcmCallOutcomes(pcm), openOk \in BOOLEAN :
            /\ Ran("close", "pcm_close")
            /\ sysfs_fd' = update_sysfs_fd(openOk)
            /\ notif' = Notified(CloseEvents)
            /\ CASE out = "ok" ->
                      /\ live' = live \ {pcm}
                      /\ state' = DEV_CLOSED
                      /\ refcnt' = [open |-> refcnt.open - 1, prepare |-> 0, start |-> 0]
                      /\ Return(0)
                 [] out = "err" ->
                      /\ live' = live \ {pcm}
                      /\ state' = DEV_CLOSED
                      /\ refcnt' = [open |-> refcnt.open - 1, prepare |-> 0, start |-> 0]
                      /\ Return(-EIO)
                 [] out = "crash" ->
                      /\ refcnt' = [refcnt EXCEPT !.open = @ - 1]
                      /\ Crash
                      /\ UNCHANGED <<state, live>>
       ELSE /\ refcnt' = [refcnt EXCEPT !.open = @ - 1]
            /\ Return(0)
            /\ Ran("close", "none")
            /\ UNCHANGED <<state, sysfs_fd, live, notif>>

----------------------------------------------------------------------------
(* The lifecycle of one Device Object under concurrent callers *)

Next ==
    \/ \E o \in Ops : Call(o)
    \/ \E o \in Ops : CallNull(o)
    \/ \E o \in Ops : Acquire(o)
    \/ DeviceOpen
    \/ DevicePrepare
    \/ DeviceStart
    \/ DeviceStop
    \/ DeviceClose

Spec == Init /\ [][Next]_vars

----------------------------------------------------------------------------
(* Device Registry / Discovery *)

\* the second pass of parse_snd_card over lines[i..], lines 701-736: arr holds
\* the slots filled so far, failAt is the line whose calloc fails (0: none)
RECURSIVE SecondPass(_, _, _, _)
SecondPass(lines, i, arr, failAt) ==
    IF i > Len(lines)
    THEN [ret |-> 0, arr |-> arr]
    ELSE IF i = failAt
    THEN [ret |-> -ENOMEM, arr |-> arr]
    ELSE IF ~lines[i].probe
    THEN SecondPass(lines, i + 1, arr, failAt)
    ELSE SecondPass(lines, i + 1,
                    Append(arr, [name |-> lines[i].name, dir |-> lines[i].dir]), failAt)

\* parse_snd_card, line 741: if (count == 0)
NoneFound(count) == count = 0

\* parse_snd_card, lines 676-759: the return value and the globals afterwards.
\* fopenOk, listOk and failAt are the outcomes of fopen, of the calloc of the
\* array and of the calloc of the device objects.
parse_snd_card(fopenOk, lines, listOk, failAt) ==
    LET counted == num_audio_intfs + Len(lines)
        pass == SecondPass(lines, 1, <<>>, failAt)
    IN  IF ~fopenOk
        THEN [ret |-> -ENODEV, list |-> device_list, num |-> num_audio_intfs]
        ELSE IF ~listOk
        THEN [ret |-> -ENOMEM, list |-> NullList, num |-> counted]
        ELSE IF pass.ret # 0
        THEN [ret |-> pass.ret, list |-> FreedList, num |-> counted]
        ELSE IF NoneFound(Len(pass.arr))
        THEN [ret |-> -EAGAIN, list |-> FreedList, num |-> counted]
        ELSE [ret |-> 0, list |-> [ptr |-> "live", cap |-> counted, arr |-> pass.arr],
              num |-> Len(pass.arr)]

\* a slip in the test of line 768: every error is retried
ShouldRetry_AnyError(r) == r # 0

\* device_init, line 768: if (ret == -EAGAIN)
ShouldRetry(r) == r = -EAGAIN

\* a slip in the test of line 774: one turn too many
LoopAgain_OneMore(n) == n >= 0

\* device_init, line 774: while (retries > 0)
LoopAgain(n) == n > 0

\* one turn of the do-while of device_init, lines 766-774
DeviceInitAttempt ==
    /\ initpc = "loop"
    /\ \E fopenOk \in BOOLEAN, lines \in Files, listOk \in BOOLEAN :
       \E failAt \in 0..Len(lines) :
       LET r == parse_snd_card(fopenOk, lines, listOk, failAt)
       IN  /\ num_audio_intfs + Len(lines) <= MaxCounted
           /\ device_list' = r.list
           /\ num_audio_intfs' = r.num
           /\ initret' = r.ret
           /\ attempts' = attempts + 1
           /\ IF ShouldRetry(r.ret)
              THEN /\ retries' = retries - 1
                   /\ sleeps' = sleeps + RETRY_INTERVAL
                   /\ initpc' = IF LoopAgain(retries - 1) THEN "loop" ELSE "done"
              ELSE /\ initpc' = "done"
                   /\ UNCHANGED <<retries, sleeps>>
    /\ UNCHANGED <<lifeVars, query>>

\* device_get_obj, line 479: if (device_idx > num_audio_intfs)
BadIndex(device_idx) == device_idx > num_audio_intfs

\* device_list[i] as C reads it: a slot of the array, or whatever lies past it
ReadSlot(i) ==
    IF i < Len(device_list.arr) THEN device_list.arr[i + 1]
    ELSE IF i < device_list.cap THEN NullDev
    ELSE WildDev

\* device_get_obj, lines 477-487
DeviceGetObj ==
    /\ initpc = "done"
    /\ initret = 0
    /\ \E device_idx \in 0..(num_audio_intfs + 2) :
       query' = IF BadIndex(device_idx)
                THEN [NoQuery EXCEPT !.fn = "get_obj", !.arg = SizeT(0, device_idx),
                                     !.ret = -EINVAL]
                ELSE [NoQuery EXCEPT !.fn = "get_obj", !.arg = SizeT(0, device_idx),
                                     !.obj = ReadSlot(device_idx), !.read = device_idx]
    /\ UNCHANGED <<lifeVars, device_list, num_audio_intfs, initpc, retries, initret,
                   attempts, sleeps>>

\* strlcpy(dst, src, size): what dst holds afterwards
strlcpy(src, size) ==
    IF Len(src) < size THEN src ELSE SubSeq(src, 1, size - 1)

\* the entry device_get_aif_info_list writes for a device object, lines 467-470
AifInfo(dev_obj) ==
    [aif_name |-> strlcpy(dev_obj.name, AIF_NAME_MAX_LEN), dir |-> dev_obj.dir]

\* a slip in the loop bound of line 465: the number of devices is not consulted
Copied_NoDeviceBound(requested) == requested

\* the loop bound of line 465, requested being the low 32 bits of *audio_intfs
Copied(requested) ==
    IF num_audio_intfs < requested THEN num_audio_intfs ELSE requested

\* device_get_aif_info_list, lines 456-475; the caller passes *audio_intfs = cap
\* and an array of that many entries
DeviceGetAifInfoList ==
    /\ initpc = "done"
    /\ initret = 0
    /\ \E hi \in 0..1, lo \in 0..(MaxLines + 1) :
       LET cap == SizeT(hi, lo)
           requested == lo
       IN  query' = IF cap = SizeT(0, 0)
                    THEN [NoQuery EXCEPT !.fn = "get_aif_info_list", !.arg = cap,
                                         !.out = SizeT(0, num_audio_intfs)]
                    ELSE [NoQuery EXCEPT !.fn = "get_aif_info_list", !.arg = cap,
                                         !.list = [i \in 1..Copied(requested) |->
                                                        AifInfo(ReadSlot(i - 1))],
                                         !.out = SizeT(0, Copied(requested))]
    /\ UNCHANGED <<lifeVars, device_list, num_audio_intfs, initpc, retries, initret,
                   attempts, sleeps>>

NextInit ==
    \/ DeviceInitAttempt
    \/ DeviceGetObj
    \/ DeviceGetAifInfoList

SpecInit == Init /\ [][NextInit]_vars

----------------------------------------------------------------------------
(* Claims about the lifecycle, checked under Spec *)

\* no call other than device_open has run yet
OnlyOpens ==
    done["prepare"] = 0 /\ done["start"] = 0 /\ done["stop"] = 0 /\ done["close"] = 0

\* the step is the critical section of device_<o>, run to its return or to a crash
BodyStep(o) == holder = o /\ (holder' = "none" \/ crashed')

\* C1 as stated: among device_open calls alone, starting from open_count == 0,
\* the driver open is invoked exactly once, and when every call returned success
\* open_count is the number of calls.
C1_OriginalOpenOnce ==
    (OnlyOpens /\ done["open"] >= 1) =>
        /\ drv["pcm_open"] = 1
        /\ (okOpen = done["open"] => refcnt.open = done["open"])

\* C1 amended: among device_open calls alone, starting from open_count == 0,
\* every call that finds open_count == 0 invokes the driver open, so each failed
\* call is one failed driver open and at most one driver open succeeds; when
\* every call returned success the driver open was invoked exactly once and
\* open_count is the number of calls.
C1_OpenOncePerSuccess ==
    OnlyOpens =>
        /\ refcnt.open = okOpen
        /\ nhandles = (IF okOpen > 0 THEN 1 ELSE 0)
        /\ drv["pcm_open"] = (done["open"] - okOpen) + nhandles
        /\ (okOpen = done["open"] /\ done["open"] >= 1 =>
                drv["pcm_open"] = 1 /\ refcnt.open = done["open"])

\* three opens, all successful, one driver open
C1_Witness ==
    /\ OnlyOpens
    /\ done["open"] = 3
    /\ okOpen = 3
    /\ refcnt.open = 3
    /\ drv["pcm_open"] = 1

\* C2: after N successful opens, with prepares, starts and stops among them and
\* no close, the first N - 1 closes make no driver close, and the N-th makes the
\* one driver close and leaves open_count, prepare_count and start_count 0 and
\* the state CLOSED.
C2_CloseOnce ==
    (~mixedClose /\ okOpen >= 1) =>
        /\ (done["close"] < okOpen =>
                /\ drv["pcm_close"] = 0
                /\ refcnt.open = okOpen - done["close"]
                /\ pcm \in live)
        /\ (done["close"] = okOpen =>
                /\ drv["pcm_close"] = 1
                /\ refcnt = [open |-> 0, prepare |-> 0, start |-> 0]
                /\ state = DEV_CLOSED
                /\ live = {})

\* two opens, a prepare and a start, then two closes
C2_Witness ==
    /\ ~mixedClose
    /\ okOpen = 2
    /\ done["prepare"] = 1
    /\ okStart = 1
    /\ done["close"] = 2
    /\ drv["pcm_close"] = 1
    /\ state = DEV_CLOSED

\* C3 as stated: in every reachable state the refcounts are non-negative,
\* prepare_count > 0 implies open_count > 0, start_count > 0 implies the state is
\* STARTED, and open_count == 0 implies prepare_count == 0 and start_count == 0.
C3_RefcountInvariant ==
    /\ refcnt.open >= 0
    /\ refcnt.prepare >= 0
    /\ refcnt.start >= 0
    /\ (refcnt.prepare > 0 => refcnt.open > 0)
    /\ (refcnt.start > 0 => state = DEV_STARTED)
    /\ (refcnt.open = 0 => refcnt.prepare = 0 /\ refcnt.start = 0)

\* C4: after K successful starts (no stop or close before them), the first
\* K - 1 stops make no driver stop and leave the state STARTED, each
\* decrementing start_count; the K-th makes the one driver stop and sets the
\* state STOPPED; further stops make no driver call.
C4_StopOnce ==
    (done["close"] = 0 /\ ~mixedStop /\ okStart >= 1) =>
        /\ (done["stop"] < okStart =>
                /\ drv["pcm_stop"] = 0
                /\ refcnt.start = okStart - done["stop"]
                /\ state = DEV_STARTED)
        /\ (done["stop"] >= okStart =>
                /\ drv["pcm_stop"] = 1
                /\ refcnt.start = 0
                /\ state = DEV_STOPPED)

\* two starts, then two stops
C4_Witness ==
    /\ done["close"] = 0
    /\ ~mixedStop
    /\ okStart = 2
    /\ done["stop"] = 2
    /\ drv["pcm_stop"] = 1
    /\ state = DEV_STOPPED

\* C5: device_start on a device whose state is below PREPARED returns the
\* ordering error -1, makes no driver call and changes neither the state nor a
\* refcount nor the handle.
C5_StartBeforePrepare ==
    [][(BodyStep("start") /\ state < DEV_PREPARED) =>
            /\ ret' = -1
            /\ ~crashed'
            /\ drv' = drv
            /\ state' = state
            /\ refcnt' = refcnt
            /\ pcm' = pcm
            /\ okStart' = okStart]_vars

\* a start on an opened, unprepared device has returned -1
C5_Witness ==
    /\ done["open"] = 1
    /\ okOpen = 1
    /\ done["prepare"] = 0
    /\ done["start"] = 1
    /\ okStart = 0
    /\ ret = -1
    /\ state = DEV_OPENED

\* C6: device_stop with start_count == 0 returns success, makes no driver call
\* and changes neither the state nor a refcount nor the handle.
C6_StopIsNoOp ==
    [][(BodyStep("stop") /\ refcnt.start = 0) =>
            /\ ret' = 0
            /\ ~crashed'
            /\ drv' = drv
            /\ state' = state
            /\ refcnt' = refcnt
            /\ pcm' = pcm
            /\ live' = live]_vars

\* one start, two stops: the second stop found start_count == 0
C6_Witness ==
    /\ done["close"] = 0
    /\ ~mixedStop
    /\ okStart = 1
    /\ done["stop"] = 2
    /\ drv["pcm_stop"] = 1
    /\ refcnt.start = 0
    /\ state = DEV_STOPPED

----------------------------------------------------------------------------
(* Claims about the registry, checked under SpecInit *)

\* C7 as stated: device_get_obj(i) returns success with the i-th entry when
\* i < endpoint count, and -EINVAL without reading device_list when
\* i >= endpoint count.
C7_GetObjBoundsChecked ==
    query.fn = "get_obj" =>
        IF query.arg.lo < num_audio_intfs
        THEN /\ query.ret = 0
             /\ query.obj = device_list.arr[query.arg.lo + 1]
        ELSE /\ query.ret = -EINVAL
             /\ query.read = -1

\* C8 as stated: with capacity 0 device_get_aif_info_list writes no entry and
\* returns the endpoint count; with capacity >= the endpoint count it writes one
\* entry per device, with the device's name and direction, in discovery order,
\* and returns the endpoint count.
C8_OriginalInfoList ==
    query.fn = "get_aif_info_list" =>
        /\ (query.arg = SizeT(0, 0) =>
                query.list = <<>> /\ query.out = SizeT(0, num_audio_intfs))
        /\ ((query.arg.hi > 0 \/ query.arg.lo >= num_audio_intfs) =>
                /\ Len(query.list) = num_audio_intfs
                /\ query.out = SizeT(0, num_audio_intfs)
                /\ \A i \in 1..Len(query.list) :
                        /\ query.list[i].aif_name = device_list.arr[i].name
                        /\ query.list[i].dir = device_list.arr[i].dir)

\* the first n characters of a name, the whole name when it is shorter
Prefix(name, n) == [i \in 1..(IF Len(name) < n THEN Len(name) ELSE n) |-> name[i]]

\* C8 amended: with capacity 0 device_get_aif_info_list writes no entry and
\* returns the endpoint count; with a capacity that is not 0 and whose low 32
\* bits are >= the endpoint count it writes one entry per device, with the first
\* AIF_NAME_MAX_LEN - 1 characters of the device's name and its direction, in
\* discovery order, and returns the endpoint count.
C8_InfoListTruncated ==
    query.fn = "get_aif_info_list" =>
        /\ (query.arg = SizeT(0, 0) =>
                query.list = <<>> /\ query.out = SizeT(0, num_audio_intfs))
        /\ ((query.arg # SizeT(0, 0) /\ query.arg.lo >= num_audio_intfs) =>
                /\ Len(query.list) = num_audio_intfs
                /\ query.out = SizeT(0, num_audio_intfs)
                /\ \A i \in 1..Len(query.list) :
                        /\ query.list[i].aif_name =
                              Prefix(device_list.arr[i].name, AIF_NAME_MAX_LEN - 1)
                        /\ query.list[i].dir = device_list.arr[i].dir)

\* two devices listed with capacity 3, the second name cut to 27 characters
C8_Witness ==
    /\ query.fn = "get_aif_info_list"
    /\ query.arg = SizeT(0, 3)
    /\ num_audio_intfs = 2
    /\ device_list.arr[1].name = FitName
    /\ device_list.arr[2].name = LongName
    /\ Len(query.list) = 2
    /\ query.list[1] = [aif_name |-> FitName, dir |-> "AUDIO_OUTPUT"]
    /\ query.list[2] = [aif_name |-> NameOfLen("l", AIF_NAME_MAX_LEN - 1),
                        dir |-> "AUDIO_INPUT"]

\* every parse_snd_card call so far returned -EAGAIN (each such call is followed
\* by one sleep of RETRY_INTERVAL seconds)
AllRetryable == sleeps = attempts * RETRY_INTERVAL

\* C9: device_init never calls parse_snd_card more than MAX_RETRY times; while
\* every call returns -EAGAIN it sleeps after each and goes on until MAX_RETRY
\* calls are made, then returns -EAGAIN.
C9_RetryBudget ==
    /\ attempts <= MAX_RETRY
    /\ (AllRetryable =>
            /\ retries = MAX_RETRY - attempts
            /\ (attempts < MAX_RETRY => initpc = "loop")
            /\ (attempts = MAX_RETRY => initpc = "done" /\ initret = -EAGAIN))

\* device_init has returned -EAGAIN after MAX_RETRY attempts
C9_Witness ==
    /\ initpc = "done"
    /\ initret = -EAGAIN
    /\ attempts = MAX_RETRY
    /\ sleeps = MAX_RETRY * RETRY_INTERVAL
    /\ retries = 0

\* C10: when fopen fails parse_snd_card returns -ENODEV and device_init returns
\* it at once: that attempt is followed by no sleep, no decrement of retries and
\* no further attempt, whatever number of retries is left.
C10_FatalNoRetry ==
    initret = -ENODEV =>
        /\ initpc = "done"
        /\ sleeps = (attempts - 1) * RETRY_INTERVAL
        /\ retries = MAX_RETRY - (attempts - 1)

\* the third attempt could not open the file, 98 retries left
C10_Witness ==
    /\ initret = -ENODEV
    /\ initpc = "done"
    /\ attempts = 3
    /\ sleeps = 2 * RETRY_INTERVAL
    /\ retries = MAX_RETRY - 2

----------------------------------------------------------------------------
(* Failure paths, the lock and the notifications, checked under Spec *)

\* the step is a device_open that found open_count == 0 and whose pcm_open
\* returned no usable handle
FailedRealOpen ==
    /\ BodyStep("open")
    /\ refcnt.open = 0
    /\ drv'["pcm_open"] = drv["pcm_open"] + 1
    /\ nhandles' = nhandles

\* C11: when the driver open fails on the first-opener path, device_open
\* returns an error, open_count, the other refcounts, the state and the stored
\* handle are unchanged, no notification is attempted; and every device_open
\* that finds open_count == 0, so also the one after a failure, calls the
\* driver open.
C11_FailedOpenLeavesNoTrace ==
    [][/\ FailedRealOpen =>
            /\ ret' = -EIO
            /\ ~crashed'
            /\ refcnt' = refcnt
            /\ state' = state
            /\ pcm' = pcm
            /\ notif' = notif
            /\ sysfs_fd' = sysfs_fd
            /\ okOpen' = okOpen
       /\ (BodyStep("open") /\ refcnt.open = 0) =>
            drv'["pcm_open"] = drv["pcm_open"] + 1]_vars

\* a first device_open failed in the driver and left everything as it was; the
\* next one called the driver again and succeeded
C11_Witness ==
    /\ OnlyOpens
    /\ done["open"] = 2
    /\ drv["pcm_open"] = 2
    /\ okOpen = 1
    /\ nhandles = 1
    /\ refcnt.open = 1
    /\ state = DEV_OPENED
    /\ notif.enable = 1

\* the critical section of the thread that holds the lock can run
HolderCanRun ==
    ENABLED (DeviceOpen \/ DevicePrepare \/ DeviceStart \/ DeviceStop \/ DeviceClose)

\* C12: each of open, prepare, start, stop and close runs its critical section
\* with the lock held and has released it when it returns, on every exit path
\* (driver failure and ordering error included); the lock is held only while a
\* thread is inside its critical section, and that thread can always go on to
\* its return, so a held lock never blocks the later calls for ever.
C12_LockReleasedOnReturn ==
    [][/\ \A o \in Ops :
            BodyStep(o) => /\ lock
                           /\ (~crashed' => ~lock' /\ holder' = "none")
       /\ (lock <=> holder # "none")
       /\ (lock' <=> holder' # "none")
       /\ ((lock /\ ~crashed) => HolderCanRun)]_vars

\* a device_open that failed in the driver and a device_start that returned
\* the ordering error have both returned, and a later device_close holds the
\* lock
C12_Witness ==
    /\ done["open"] = 1
    /\ okOpen = 0
    /\ done["start"] = 1
    /\ okStart = 0
    /\ ret < 0
    /\ holder = "close"
    /\ lock
    /\ ~crashed

\* what a critical section of device_open or device_close can leave behind, as
\* <<return value, crashed, state, refcnt, pcm>>
Results ==
    {0, -EIO} \X BOOLEAN \X {state, DEV_OPENED, DEV_CLOSED}
      \X {refcnt, [refcnt EXCEPT !.open = @ + 1], [refcnt EXCEPT !.open = @ - 1],
          [open |-> refcnt.open - 1, prepare |-> 0, start |-> 0]}
      \X {pcm, nhandles + 1}

\* the step leaves the result r
Leaves(r) == <<IF crashed' THEN 0 ELSE ret', crashed', state', refcnt', pcm'>> = r

\* the step attempts a notification with no descriptor open yet, and the
\* open of the sink fails / succeeds
SinkFails == notif # notif' /\ sysfs_fd < 0 /\ sysfs_fd' < 0
SinkWorks == notif # notif' /\ sysfs_fd < 0 /\ sysfs_fd' >= 0

\* C14: the notification sink never affects a lifecycle result. Whenever
\* device_open or device_close is about to run with the sink not yet open,
\* every result (return value, state, refcounts, handle) it can leave with the
\* sink failing it can leave with the sink working, and conversely; and it
\* leaves no other result.
C14_SinkNeverLoadBearing ==
    /\ (sysfs_fd < 0 /\ ~crashed /\ holder = "open") =>
        /\ \A r \in Results :
              ENABLED (DeviceOpen /\ SinkFails /\ Leaves(r))
                <=> ENABLED (DeviceOpen /\ SinkWorks /\ Leaves(r))
        /\ ~ ENABLED (DeviceOpen /\ notif # notif' /\ \A r \in Results : ~Leaves(r))
    /\ (sysfs_fd < 0 /\ ~crashed /\ holder = "close") =>
        /\ \A r \in Results :
              ENABLED (DeviceClose /\ SinkFails /\ Leaves(r))
                <=> ENABLED (DeviceClose /\ SinkWorks /\ Leaves(r))
        /\ ~ ENABLED (DeviceClose /\ notif # notif' /\ \A r \in Results : ~Leaves(r))

\* a device_open and then a device_close have both notified with the sink
\* failing to open, and returned success; the device is closed
C14_Witness ==
    /\ done["open"] = 1
    /\ done["close"] = 1
    /\ OnlyOpens = FALSE
    /\ notif.enable = 1
    /\ notif.disable = 1
    /\ sysfs_fd < 0
    /\ okOpen = 1
    /\ ret = 0
    /\ state = DEV_CLOSED
    /\ refcnt.open = 0

\* C16 as stated: a device_start on a Device Object whose start_count has
\* dropped to 0 (state STOPPED) succeeds without a driver call and sets the
\* state STARTED; the last close leaves the state CLOSED and the counts 0,
\* the next device_open then calls the driver open and, when that succeeds,
\* stores a fresh live handle; and device_start fails while the object is
\* closed and, in the new cycle, until a prepare has succeeded.
C16_RestartAndReuse ==
    [][/\ (BodyStep("start") /\ state = DEV_STOPPED /\ refcnt.start = 0) =>
            /\ ret' = 0
            /\ ~crashed'
            /\ state' = DEV_STARTED
            /\ refcnt'.start = 1
            /\ drv' = drv
       /\ (BodyStep("close") /\ refcnt.open = 1 /\ ~crashed') =>
            /\ state' = DEV_CLOSED
            /\ refcnt' = [open |-> 0, prepare |-> 0, start |-> 0]
       /\ (BodyStep("open") /\ state = DEV_CLOSED /\ refcnt.open = 0) =>
            /\ drv'["pcm_open"] = drv["pcm_open"] + 1
            /\ (ret' = 0 => /\ pcm' \in live' \ live
                            /\ pcm' # pcm
                            /\ state' = DEV_OPENED
                            /\ refcnt'.open = 1)
       /\ (BodyStep("start") /\ (refcnt.open <= 0 \/ refcnt.prepare = 0)) =>
            /\ ret' = -1
            /\ state' = state
            /\ okStart' = okStart]_vars

\* C17 as stated: in every reachable state the handle field is NULL whenever
\* open_count == 0, and is the live handle the most recent successful driver
\* open returned whenever open_count > 0; after the close that brings open_count
\* to 0 the field does not refer to the closed handle.
C17_HandleNullWhenClosed ==
    /\ (refcnt.open = 0 => pcm = NULL)
    /\ (refcnt.open > 0 => pcm \in live /\ pcm = nhandles)

\* C20: over any sequence of lifecycle calls (so also those in which the
\* closes never exceed the opens) an 'enabled' notification is attempted once
\* per driver open that succeeded, after it, and none on a failed or a
\* piggyback open; a 'disabled' notification is attempted once per driver
\* close, before it, and none on a close that leaves open_count above 0; the
\* two alternate, beginning with 'enabled'.
C20_NotificationsAlternate ==
    /\ notif.enable = nhandles
    /\ notif.disable = drv["pcm_close"]
    /\ notif.enable - notif.disable \in {0, 1}
    /\ (notif.enable = 0 <=> notif.log = <<>>)
    /\ (notif.enable > notif.disable <=> notif.log = <<"pcm_open", "DEVICE_ENABLE">>)
    /\ ((notif.enable > 0 /\ notif.enable = notif.disable)
          <=> notif.log = <<"DEVICE_DISABLE", "pcm_close">>)
    /\ (refcnt.open > 0 => notif.enable > notif.disable)

\* two opens (the second a piggyback) and two closes, then a second cycle of
\* one open and one close: two 'enabled' and two 'disabled'
C20_Witness ==
    /\ okOpen = 3
    /\ done["open"] = 3
    /\ done["close"] = 3
    /\ drv["pcm_open"] = 2
    /\ drv["pcm_close"] = 2
    /\ notif.enable = 2
    /\ notif.disable = 2
    /\ refcnt.open = 0
    /\ ~crashed

\* C22 as stated: whenever device_open returns success, the Device Object
\* afterwards has open_count > 0, a state other than CLOSED and a handle that
\* a successful driver open returned and no driver close has closed; after
\* any earlier calls, a device_close at open_count 0 among them.
C22_OpenSuccessMeansOpen ==
    [][(BodyStep("open") /\ ~crashed' /\ ret' = 0) =>
            /\ refcnt'.open > 0
            /\ state' # DEV_CLOSED
            /\ pcm' \in live']_vars

\* C23: a device_stop that returns an error is the one that brought
\* start_count to 0 and called the driver's stop once; it does not roll back:
\* start_count is 0 and the state is STOPPED afterwards. A device_stop that
\* finds start_count == 0, as a repeated one does, returns 0, makes no driver
\* call and changes nothing: the failed stop is not retried.
C23_FailedStopNotRolledBack ==
    [][(BodyStep("stop") /\ ~crashed') =>
            /\ ret' # 0 =>
                    /\ ret' = -EIO
                    /\ refcnt.start = 1
                    /\ refcnt'.start = 0
                    /\ state' = DEV_STOPPED
                    /\ drv' = [drv EXCEPT !["pcm_stop"] = @ + 1]
            /\ refcnt.start = 0 =>
                    /\ ret' = 0
                    /\ drv' = drv
                    /\ refcnt' = refcnt
                    /\ state' = state]_vars

\* open, prepare and start succeeded, the one stop that ran got an error from
\* pcm_stop, and a second device_stop is in its critical section
C23_Witness ==
    /\ \A o \in {"open", "prepare", "start", "stop"} : done[o] = 1
    /\ done["close"] = 0
    /\ okStart = 1
    /\ drv["pcm_stop"] = 1
    /\ ret = -EIO
    /\ holder = "stop"
    /\ refcnt.start = 0
    /\ state = DEV_STOPPED

----------------------------------------------------------------------------
(* Teardown: the lifecycle of a registered Device Object, then device_deinit *)

\* the line of /proc/asound/pcm of the one device of this scenario
OneLine == [name |-> FitName, probe |-> TRUE, dir |-> "AUDIO_OUTPUT"]

\* device_init has returned 0 on its first attempt with one device found, and
\* no lifecycle call has been made yet
InitTeardown ==
    /\ state = DEV_CLOSED
    /\ refcnt = [open |-> 0, prepare |-> 0, start |-> 0]
    /\ pcm = NULL
    /\ media_config = DefaultConfig
    /\ lock = FALSE
    /\ params = NoParams
    /\ lockuse = [unheld |-> FALSE, bare |-> {}]
    /\ mixer = NULL
    /\ mixers = {}
    /\ nmixers = 0
    /\ chmap = [p \in ChmapPositions |-> 0]
    /\ chcalls = 0
    /\ sysfs_fd = -1
    /\ waiting = [o \in Ops |-> 0]
    /\ holder = "none"
    /\ ret = 0
    /\ crashed = FALSE
    /\ live = {}
    /\ nhandles = 0
    /\ lastConfig = NoConfig
    /\ done = [o \in Ops |-> 0]
    /\ okOpen = 0
    /\ okStart = 0
    /\ drv = [d \in DrvCalls |-> 0]
    /\ mixedClose = FALSE
    /\ mixedStop = FALSE
    /\ notif = [enable |-> 0, disable |-> 0, log |-> <<>>]
    /\ device_list = [ptr |-> "live", cap |-> 1,
                      arr |-> SecondPass(<<OneLine>>, 1, <<>>, 0).arr]
    /\ num_audio_intfs = 1
    /\ initpc = "done"
    /\ retries = MAX_RETRY
    /\ initret = 0
    /\ attempts = 1
    /\ sleeps = 0
    /\ query = NoQuery

\* device_init has returned 0 and device_deinit has not run
Registered == initpc = "done" /\ initret = 0

\* the driver handles device_deinit closes for a device object: the loop of
\* lines 785-794 frees the metadata, the params and the object, and makes no
\* driver call
DeinitCloses(handle) == {}

\* device_deinit, lines 779-809. The Device Object of the lifecycle is
\* device_list[0]; it is freed with its refcounts and its handle as they are.
DeviceDeinit ==
    /\ ~crashed
    /\ Registered
    /\ live' = live \ DeinitCloses(pcm)
    /\ sysfs_fd' = -1
    /\ device_list' = NullList
    /\ initpc' = "deinit"
    /\ mixers' = IF mixer # NULL THEN mixers \ {mixer} ELSE mixers
    /\ UNCHANGED <<state, refcnt, pcm, media_config, lock, params, lockuse, thrVars,
                   nhandles, lastConfig, histVars, num_audio_intfs, retries,
                   initret, attempts, sleeps, query>>
    /\ UNCHANGED <<mixer, nmixers, chmap, chcalls>>

\* the lifecycle calls are made on the registered object while it exists
NextTeardown ==
    \/ \E o \in Ops : Registered /\ Call(o)
    \/ \E o \in Ops : Registered /\ CallNull(o)
    \/ \E o \in Ops : Registered /\ Acquire(o)
    \/ Registered /\ DeviceOpen
    \/ Registered /\ DevicePrepare
    \/ Registered /\ DeviceStart
    \/ Registered /\ DeviceStop
    \/ Registered /\ DeviceClose
    \/ DeviceDeinit

SpecTeardown == InitTeardown /\ [][NextTeardown]_vars

\* C13 as stated: after device_deinit no driver handle that was open before
\* the teardown remains open; for a Device Object with open_count > 0 at the
\* teardown the driver close has been invoked on its handle.
C13_TeardownClosesHandles ==
    initpc = "deinit" =>
        /\ live = {}
        /\ (refcnt.open > 0 => pcm \notin live)

----------------------------------------------------------------------------
(* Configuration: device_set_media_config and device_open *)

\* device_set_media_config, lines 489-502: no lock is taken
DeviceSetMediaConfig ==
    /\ ~crashed
    /\ \E isNull \in BOOLEAN, device_media_config \in MediaConfigs :
         IF isNull
         THEN /\ ret' = -EINVAL
              /\ UNCHANGED media_config
         ELSE /\ media_config' = device_media_config
              /\ ret' = 0
    /\ UNCHANGED <<state, refcnt, pcm, lock, sysfs_fd, accVars, waiting, holder,
                   crashed, drvVars, histVars, regVars>>

NextConfig ==
    \/ DeviceSetMediaConfig
    \/ Call("open")
    \/ Acquire("open")
    \/ DeviceOpen

SpecConfig == Init /\ [][NextConfig]_vars

\* the formats the claim calls supported, with the native format and the bytes
\* per sample it gives for each
SupportedFormats ==
    {"AGM_FORMAT_PCM_S8", "AGM_FORMAT_PCM_S16_LE", "AGM_FORMAT_PCM_S24_3LE",
     "AGM_FORMAT_PCM_S24_LE", "AGM_FORMAT_PCM_S32_LE"}

NativeOf(format) ==
    CASE format = "AGM_FORMAT_PCM_S8"      -> "PCM_FORMAT_S8"
      [] format = "AGM_FORMAT_PCM_S16_LE"  -> "PCM_FORMAT_S16_LE"
      [] format = "AGM_FORMAT_PCM_S24_3LE" -> "PCM_FORMAT_S24_3LE"
      [] format = "AGM_FORMAT_PCM_S24_LE"  -> "PCM_FORMAT_S24_LE"
      [] format = "AGM_FORMAT_PCM_S32_LE"  -> "PCM_FORMAT_S32_LE"

BytesPerSample(format) ==
    CASE format = "AGM_FORMAT_PCM_S8"      -> 1
      [] format = "AGM_FORMAT_PCM_S16_LE"  -> 2
      [] format = "AGM_FORMAT_PCM_S24_3LE" -> 3
      [] format = "AGM_FORMAT_PCM_S24_LE"  -> 4
      [] format = "AGM_FORMAT_PCM_S32_LE"  -> 4

\* q is the integer quotient n / d
IsQuotient(q, n, d) == q * d <= n /\ n < (q + 1) * d

\* C15 as stated: for every supported format and every channel count, a
\* device_open that finds open_count == 0 passes to the driver the native
\* format of media_config.format, period_size = 8192 / (channels * bytes per
\* sample) in integer division, and period count 2.
C15_ConfigRoundTrip ==
    [][(BodyStep("open") /\ refcnt.open = 0
          /\ media_config.format \in SupportedFormats) =>
            /\ drv'["pcm_open"] = drv["pcm_open"] + 1
            /\ lastConfig'.format = NativeOf(media_config.format)
            /\ lastConfig'.channels = media_config.channels
            /\ IsQuotient(lastConfig'.period_size, 8192,
                          media_config.channels * BytesPerSample(media_config.format))
            /\ lastConfig'.period_count = 2]_vars

----------------------------------------------------------------------------
(* Accessors: device_set_params and device_current_state, called while other
   threads open and close the device *)

\* whether the calling thread of an accessor holds dev_obj->lock: neither
\* device_set_params nor device_current_state calls pthread_mutex_lock
AccessorHoldsLock == FALSE

\* lockuse after the calling thread made unlocks calls of pthread_mutex_unlock
\* and touched the fields of touched
Used(unlocks, touched) ==
    [unheld |-> lockuse.unheld \/ (unlocks > 0 /\ ~AccessorHoldsLock),
     bare   |-> IF AccessorHoldsLock THEN lockuse.bare ELSE lockuse.bare \cup touched]

\* device_set_params, lines 511-538, called while no thread is inside a
\* critical section of the object (unlocking the lock under a thread that
\* holds it is not followed here): line 516 unlocks the lock the thread does
\* not hold, lines 518-533 free, allocate and fill params, line 536 unlocks a
\* second time
DeviceSetParams ==
    /\ ~crashed
    /\ holder = "none"
    /\ \E size \in 0..MaxSize, callocOk \in BOOLEAN :
         IF callocOk
         THEN /\ params' = [ptr |-> "heap", size |-> size]
              /\ ret' = 0
         ELSE /\ params' = NoParams
              /\ ret' = -EINVAL
    /\ lock' = FALSE
    /\ lockuse' = Used(2, {"params"})
    /\ UNCHANGED <<state, refcnt, pcm, media_config, sysfs_fd, waiting, holder,
                   crashed, drvVars, histVars, regVars>>
    /\ UNCHANGED <<mixer, mixers, nmixers, chmap, chcalls>>

\* device_current_state, lines 451-454: return dev_obj->state, no lock taken
DeviceCurrentState ==
    /\ ~crashed
    /\ ret' = state
    /\ lockuse' = Used(0, {"state"})
    /\ UNCHANGED <<devVars, params, waiting, holder, crashed, drvVars, histVars,
                   regVars>>
    /\ UNCHANGED <<mixer, mixers, nmixers, chmap, chcalls>>

NextParams ==
    \/ DeviceSetParams
    \/ DeviceCurrentState
    \/ Call("open")
    \/ Acquire("open")
    \/ DeviceOpen
    \/ Call("close")
    \/ Acquire("close")
    \/ DeviceClose

SpecParams == Init /\ [][NextParams]_vars

\* C18 as stated: every read or write of the state, the refcounts, the handle
\* or the params of a Device Object is made by a thread that holds the lock
\* of the object, and no thread unlocks a lock it does not hold.
C18_LockDiscipline ==
    /\ lockuse.bare = {}
    /\ ~lockuse.unheld

----------------------------------------------------------------------------
(* The channel map query and the process-wide mixer *)

ChmapInFlight == chmap["test"] + chmap["open"] + chmap["use"]

\* one thread of device_get_channel_map moves from position p to position q;
\* "out" is outside the function
ChmapMove(p, q) ==
    chmap' = [r \in ChmapPositions |->
                 chmap[r] - (IF r = p THEN 1 ELSE 0) + (IF r = q THEN 1 ELSE 0)]

\* a thread enters device_get_channel_map
ChmapCall ==
    /\ ~crashed
    /\ ChmapInFlight < NThreads
    /\ chcalls < MaxCalls
    /\ chcalls' = chcalls + 1
    /\ ChmapMove("out", "test")
    /\ UNCHANGED <<devVars, params, lockuse, mixer, mixers, nmixers, thrVars,
                   drvVars, histVars, regVars>>

\* device_get_channel_map, line 623: if (mixer == NULL), evaluated with no lock
\* held, whatever the other threads of the query are doing
ChmapTest ==
    /\ ~crashed
    /\ chmap["test"] > 0
    /\ IF mixer = NULL THEN ChmapMove("test", "open") ELSE ChmapMove("test", "use")
    /\ UNCHANGED <<devVars, params, lockuse, mixer, mixers, nmixers, chcalls, thrVars,
                   drvVars, histVars, regVars>>

\* device_get_snd_card_id, lines 149-158: device_list[0] is NULL
NoCard == ReadSlot(0) = NullDev

\* device_get_channel_map, lines 624-635: the thread that read NULL gets the
\* card id, calls mixer_open and stores what it returned in the global mixer
ChmapOpen ==
    /\ ~crashed
    /\ chmap["open"] > 0
    /\ IF NoCard
       THEN /\ ret' = -EINVAL
            /\ ChmapMove("open", "out")
            /\ UNCHANGED <<mixer, mixers, nmixers>>
       ELSE \E opened \in BOOLEAN :
            IF opened
            THEN /\ nmixers' = nmixers + 1
                 /\ mixers' = mixers \cup {nmixers + 1}
                 /\ mixer' = nmixers + 1
                 /\ ChmapMove("open", "use")
                 /\ UNCHANGED ret
            ELSE /\ mixer' = NULL
                 /\ ret' = -EINVAL
                 /\ ChmapMove("open", "out")
                 /\ UNCHANGED <<mixers, nmixers>>
    /\ UNCHANGED <<devVars, params, lockuse, chcalls, waiting, holder, crashed,
                   drvVars, histVars, regVars>>

\* what the rest of the function can return: the two calloc can fail, the
\* control can be missing and the read can fail; on a mixer that is NULL or
\* closed the lookup finds nothing
ChmapReturns(h) ==
    IF h \in mixers THEN {0, -ENOMEM, -ENOENT, -EIO} ELSE {-ENOMEM, -ENOENT}

\* whether the lookup can kill the process: it can on a mixer that is NULL or
\* closed
ChmapDies(h) == IF h \in mixers THEN {FALSE} ELSE {TRUE, FALSE}

\* device_get_channel_map, lines 637-672: the lookup and the read through the
\* global mixer
ChmapUse ==
    /\ chmap["use"] > 0
    /\ ~crashed
    /\ \E dies \in ChmapDies(mixer), out \in ChmapReturns(mixer) :
         IF dies
         THEN /\ crashed' = TRUE
              /\ UNCHANGED <<ret, chmap>>
         ELSE /\ ret' = out
              /\ ChmapMove("use", "out")
              /\ UNCHANGED crashed
    /\ UNCHANGED <<devVars, params, lockuse, mixer, mixers, nmixers, chcalls, waiting,
                   holder, drvVars, histVars, regVars>>

\* the queries are made on the registered object while it exists, and
\* device_deinit is called when no query is in flight
NextMixer ==
    \/ Registered /\ ChmapCall
    \/ Registered /\ ChmapTest
    \/ Registered /\ ChmapOpen
    \/ Registered /\ ChmapUse
    \/ ChmapInFlight = 0 /\ DeviceDeinit

SpecMixer == InitTeardown /\ [][NextMixer]_vars

\* C21 as stated: over the device_get_channel_map calls made between
\* device_init and device_deinit by one or several threads, mixer_open succeeds
\* at most once: once the handle is open every later call reuses it.
C21_MixerOpenedOnce == nmixers <= 1

----------------------------------------------------------------------------
(* Failed discovery attempts, checked under SpecInit *)

\* C19 as stated: after a discovery attempt that returned an error (-EAGAIN,
\* -ENODEV or -ENOMEM) nothing of the attempt is retained: the array and the
\* objects are released, and the array reference and the entry count are what
\* they were before the attempt, which after attempts that all failed is the
\* initial empty registry (a NULL array and a count of 0).
C19_NoPartialState ==
    (attempts > 0 /\ initret # 0) =>
        /\ device_list.ptr # "live"
        /\ device_list = NullList
        /\ num_audio_intfs = 0

====
